---- MODULE Spec2Model ----
(***************************************************************************)
(* The DataLoader class of the article "Use DataLoaders to batch and queue *)
(* database requests with GraphQL": constructor, batchFn, schedulingFn and *)
(* the async method load, run on the single-threaded JavaScript event loop.*)
(* Two instances are constructed; a call of load up to its await, the      *)
(* continuation of load once its deferral has resolved, and the settling   *)
(* of an aggregate query are the steps of the machine.                     *)
(***************************************************************************)
EXTENDS Integers, Sequences, FiniteSets, TLC

\* Bounds of the model.
MaxKey == 2
MaxCalls == 2

\* The two instances (one per request in the article's context function).
Loaders == {"A", "B"}
Keys == 1..MaxKey

\* Values of an entry promises[key]: no such property, the null placeholder,
\* or (a positive number) the promise created by the then-call of that number.
Absent == -1
Placeholder == 0

VARIABLES
    batchFn,      \* batchFn[l]: the own property this.batchFn of instance l
    promises,     \* promises[o][k]: the entry of key k in the object o
    activeQuery,  \* activeQuery[l]: 0 (null) or the index of a query
    queries,      \* the aggregate fetches batchFn has returned, in call order
    thens,        \* the promises created by activeQuery.then(...)
    calls,        \* the invocations of load, in call order
    schedCalls    \* schedCalls[l]: how often schedulingFn of l was invoked

vars == <<batchFn, promises, activeQuery, queries, thens, calls, schedCalls>>

----------------------------------------------------------------------------
\* Values

NoItem == [id |-> 0, query |-> 0]            \* undefined
NoError == [name |-> "", query |-> 0]
TypeError == [name |-> "TypeError", query |-> 0]
NotImplemented == [name |-> "Not implemented", query |-> 0]
BatchError(q) == [name |-> "BatchError", query |-> q]

Pending == [kind |-> "pending", item |-> NoItem, err |-> NoError]
Fulfilled(item) == [kind |-> "fulfilled", item |-> item, err |-> NoError]
Rejected(err) == [kind |-> "rejected", item |-> NoItem, err |-> err]

\* The row with id k that query q returned.
Item(k, q) == [id |-> k, query |-> q]

\* The sequences of distinct keys: the id columns a batchFn result may have.
RECURSIVE DistinctSeqs(_)
DistinctSeqs(S) ==
    IF S = {} THEN {<<>>}
    ELSE {<<>>} \cup
         UNION {{<<k>> \o t : t \in DistinctSeqs(S \ {k})} : k \in S}

----------------------------------------------------------------------------
\* new DataLoader(batchFn, options)

\* this.promises = {} makes a fresh object for every instance.
SharedPromisesRef(l) == "A"
PromisesRef(l) == l

PromisesOf(l) == promises[PromisesRef(l)]

\* this.batchFn = batchFn always creates an own property, also when the
\* argument is undefined; the method of the class is found only without one.
HasOwnBatchFn(l) == TRUE

LookupBatchFn(l) == IF HasOwnBatchFn(l) THEN batchFn[l] ELSE "default"

Init ==
    /\ batchFn \in {f \in [Loaders -> {"function", "undefined"}] :
                       f["A"] = "function"}
    /\ promises = [o \in Loaders |-> [k \in Keys |-> Absent]]
    /\ activeQuery = [l \in Loaders |-> 0]
    /\ queries = <<>>
    /\ thens = <<>>
    /\ calls = <<>>
    /\ schedCalls = [l \in Loaders |-> 0]

----------------------------------------------------------------------------
\* load(key)

\* items.find((item) => item.id === Number(key))
FindFirstItem(rows, q, k) == IF rows = <<>> THEN NoItem ELSE Item(rows[1], q)
FindByPosition(rows, q, k) ==
    IF k <= Len(rows) THEN Item(rows[k], q) ELSE NoItem
RECURSIVE Find(_, _, _)
Find(rows, q, k) ==
    IF rows = <<>> THEN NoItem
    ELSE IF rows[1] = k THEN Item(rows[1], q)
    ELSE Find(Tail(rows), q, k)

\* The state of activeQuery.then((items) => items.find(...)) chained to a
\* query in state qs: a rejection passes through, rows are searched for k.
ThenSwallowing(qs, q, k) ==
    IF qs.state = "pending" THEN Pending
    ELSE Fulfilled(Find(qs.rows, q, k))
ThenResult(qs, q, k) ==
    CASE qs.state = "pending" -> Pending
      [] qs.state = "rejected" -> Rejected(BatchError(q))
      [] OTHER -> Fulfilled(Find(qs.rows, q, k))

\* A load call that has returned promise p takes the state of p; returning
\* what is no promise (the null placeholder) fulfils the call with it.
Adopt(call, qseq, tseq) ==
    IF call.pc = "returned" /\ call.outcome.kind = "pending"
    THEN IF call.p = Placeholder
         THEN [call EXCEPT !.outcome = Fulfilled(NoItem)]
         ELSE [call EXCEPT
                 !.outcome = ThenResult(qseq[tseq[call.p].query],
                                        tseq[call.p].query, tseq[call.p].key)]
    ELSE call

\* if (this.promises[key]): null and a missing property are falsy.
IsCachedLoose(l, k) == PromisesOf(l)[k] >= Placeholder
NeverCached(l, k) == FALSE
IsCached(l, k) == PromisesOf(l)[k] > Placeholder

\* The load calls of l that have passed their await.
Resumed(l) ==
    {c \in DOMAIN calls :
        calls[c].loader = l /\ ~calls[c].hit /\ calls[c].pc # "await"}

\* load up to its first suspension: the cached promise is returned, or the
\* placeholder is written and schedulingFn is invoked and awaited.
Load(l, k) ==
    /\ Len(calls) < MaxCalls
    /\ LET call == [loader |-> l, key |-> k,
                    found |-> PromisesOf(l)[k],
                    epoch |-> Cardinality(Resumed(l)),
                    outcome |-> Pending]
       IN IF IsCached(l, k)
          THEN /\ calls' = Append(calls,
                     Adopt(call @@ [hit |-> TRUE, pc |-> "returned",
                                    p |-> PromisesOf(l)[k]],
                           queries, thens))
               /\ UNCHANGED <<promises, schedCalls>>
          ELSE /\ promises' =
                     [promises EXCEPT ![PromisesRef(l)][k] = Placeholder]
               /\ schedCalls' = [schedCalls EXCEPT ![l] = @ + 1]
               /\ calls' = Append(calls,
                     call @@ [hit |-> FALSE, pc |-> "await", p |-> 0])
    /\ UNCHANGED <<batchFn, activeQuery, queries, thens>>

\* The elements of the set S of numbers in ascending order.
RECURSIVE SortedSeqDescending(_)
SortedSeqDescending(S) ==
    IF S = {} THEN <<>>
    ELSE LET m == CHOOSE x \in S : \A y \in S : x >= y
         IN <<m>> \o SortedSeqDescending(S \ {m})
RECURSIVE SortedSeq(_)
SortedSeq(S) ==
    IF S = {} THEN <<>>
    ELSE LET m == CHOOSE x \in S : \A y \in S : x <= y
         IN <<m>> \o SortedSeq(S \ {m})

\* Object.keys(this.promises): integer-like property names come first, in
\* ascending numeric order, whatever the order they were created in.
ObjectKeysWithPromise(o) ==
    SortedSeq({k \in Keys : promises[o][k] > Placeholder})
ObjectKeys(o) == SortedSeq({k \in Keys : promises[o][k] # Absent})

\* if (!this.activeQuery)
AlwaysDispatch(l) == TRUE
ShouldDispatch(l) == activeQuery[l] = 0

\* The continuation of load after await this.schedulingFn(), to its return.
Resume(c) ==
    /\ c \in DOMAIN calls
    /\ calls[c].pc = "await"
    /\ LET l == calls[c].loader
           k == calls[c].key
           ids == ObjectKeys(PromisesRef(l))
           fn == LookupBatchFn(l)
       IN IF ShouldDispatch(l) /\ fn # "function"
          THEN \* this.batchFn(ids) throws: load rejects, nothing is stored
               /\ calls' = [calls EXCEPT ![c].pc = "threw",
                               ![c].outcome =
                                   Rejected(IF fn = "default"
                                            THEN NotImplemented
                                            ELSE TypeError)]
               /\ UNCHANGED <<promises, activeQuery, queries, thens>>
          ELSE LET q == IF ShouldDispatch(l)
                        THEN Len(queries) + 1 ELSE activeQuery[l]
                   p == Len(thens) + 1
               IN /\ queries' =
                        IF ShouldDispatch(l)
                        THEN Append(queries,
                                 [loader |-> l, ids |-> ids, by |-> c,
                                  state |-> "pending", rows |-> <<>>])
                        ELSE queries
                  /\ activeQuery' = [activeQuery EXCEPT ![l] = q]
                  /\ thens' = Append(thens, [query |-> q, key |-> k])
                  /\ promises' =
                        [promises EXCEPT ![PromisesRef(l)][k] = p]
                  /\ calls' =
                        [calls EXCEPT
                           ![c] = Adopt([@ EXCEPT !.pc = "returned", !.p = p],
                                        queries', thens')]
    /\ UNCHANGED <<batchFn, schedCalls>>

----------------------------------------------------------------------------
\* The aggregate fetch and the promises chained to it

\* The promise batchFn returned settles: it rejects, or it is fulfilled with
\* rows whose ids are distinct keys, in any order and number. The promises
\* chained to it, and the load calls that returned them, settle with it.
SettleQuery(q) ==
    /\ q \in DOMAIN queries
    /\ queries[q].state = "pending"
    /\ \/ queries' = [queries EXCEPT ![q].state = "rejected"]
       \/ \E rows \in DistinctSeqs(Keys) :
              queries' = [queries EXCEPT ![q].state = "fulfilled",
                                         ![q].rows = rows]
    /\ calls' = [c \in DOMAIN calls |-> Adopt(calls[c], queries', thens)]
    /\ UNCHANGED <<batchFn, promises, activeQuery, thens, schedCalls>>

----------------------------------------------------------------------------

Next ==
    \/ \E l \in Loaders, k \in Keys : Load(l, k)
    \/ \E c \in 1..MaxCalls : Resume(c)
    \/ \E q \in 1..MaxCalls : SettleQuery(q)

Spec == Init /\ [][Next]_vars

\* Every deferral of schedulingFn resolves and every aggregate fetch settles.
FairSpec ==
    /\ Spec
    /\ \A c \in 1..MaxCalls : WF_vars(Resume(c))
    /\ \A q \in 1..MaxCalls : WF_vars(SettleQuery(q))

----------------------------------------------------------------------------
\* Vocabulary of the properties

Range(s) == {s[i] : i \in DOMAIN s}

CallsOf(l) == {c \in DOMAIN calls : calls[c].loader = l}
QueriesOf(l) == {q \in DOMAIN queries : queries[q].loader = l}

\* The load calls of l that registered their key between the same two
\* resumptions on l: none of their deferrals had resolved when they were made.
Window(l, e) == {c \in CallsOf(l) : ~calls[c].hit /\ calls[c].epoch = e}
KeysOfCalls(W) == {calls[c].key : c \in W}

\* The query the promise returned by load call c is chained to (0: none).
QueryOf(c) == IF calls[c].p > 0 THEN thens[calls[c].p].query ELSE 0
Settled(c) == calls[c].outcome.kind # "pending"

\* C1: for the load calls of every scheduling window, batchFn is invoked
\* exactly once, with exactly the distinct keys of that window, each once.
C1_OneBatchPerWindow ==
    \A l \in Loaders, e \in 0..MaxCalls :
        LET W == Window(l, e)
            Q == {q \in QueriesOf(l) : queries[q].by \in W}
        IN (batchFn[l] = "function" /\ W # {}
              /\ \A c \in W : calls[c].pc # "await")
           => /\ Cardinality(Q) = 1
              /\ \A q \in Q :
                    /\ Range(queries[q].ids) = KeysOfCalls(W)
                    /\ Len(queries[q].ids) = Cardinality(KeysOfCalls(W))

\* C2: a key requested after the first batch was dispatched gets a second
\* batchFn invocation of the same loader, whose keys contain it.
C2_LateKeyNewBatch ==
    \A c1, c2 \in DOMAIN calls :
        LET l == calls[c1].loader
        IN (/\ calls[c2].loader = l
            /\ batchFn[l] = "function"
            /\ calls[c1].key # calls[c2].key
            /\ \E q1 \in QueriesOf(l) : queries[q1].by = c1
            /\ calls[c2].epoch >= 1
            /\ calls[c2].pc # "await")
           => \E q1, q2 \in QueriesOf(l) :
                 /\ q1 # q2
                 /\ queries[q1].by = c1
                 /\ calls[c2].key \in Range(queries[q2].ids)

\* C3: if batchFn returned an item for every key it was passed, every load(k)
\* call, whenever issued, resolves to the item whose id is k.
C3_ResolvesToOwnItem ==
    \A c \in DOMAIN calls :
        LET q == QueryOf(c)
        IN (/\ q > 0
            /\ queries[q].state = "fulfilled"
            /\ Range(queries[q].ids) \subseteq Range(queries[q].rows))
           => /\ calls[c].outcome.kind = "fulfilled"
              /\ calls[c].outcome.item.id = calls[c].key

\* C4: when the aggregate fetch rejects, every load call chained to it is
\* rejected with that same error and none is fulfilled.
C4_BatchFailureRejectsAll ==
    \A c \in DOMAIN calls :
        LET q == QueryOf(c)
        IN (q > 0 /\ queries[q].state = "rejected")
           => calls[c].outcome = Rejected(BatchError(q))

C4_Witness ==
    \E c1, c2 \in DOMAIN calls :
        /\ calls[c1].key # calls[c2].key
        /\ QueryOf(c1) > 0
        /\ QueryOf(c1) = QueryOf(c2)
        /\ calls[c1].outcome = Rejected(BatchError(QueryOf(c1)))
        /\ calls[c2].outcome = calls[c1].outcome

\* C5: load calls for the same key in one window are resolved with the
\* identical value, and batchFn of that loader has been invoked once.
C5_SameKeySameValue ==
    \A c1, c2 \in DOMAIN calls :
        (/\ calls[c1].loader = calls[c2].loader
         /\ calls[c1].key = calls[c2].key
         /\ calls[c1].epoch = calls[c2].epoch
         /\ calls[c1].outcome.kind = "fulfilled"
         /\ calls[c2].pc # "await")
        => /\ calls[c2].outcome = calls[c1].outcome
           /\ Cardinality(QueriesOf(calls[c1].loader)) = 1

C5_Witness ==
    \E c1, c2 \in DOMAIN calls :
        /\ c1 # c2
        /\ calls[c1].loader = calls[c2].loader
        /\ calls[c1].key = calls[c2].key
        /\ calls[c1].epoch = calls[c2].epoch
        /\ calls[c1].outcome.kind = "fulfilled"
        /\ calls[c1].outcome.item.id = calls[c1].key
        /\ calls[c2].outcome = calls[c1].outcome

\* A step of load on instance l: a call of l.load, or the continuation of one.
LoadStepOn(l) ==
    \/ /\ Len(calls') = Len(calls) + 1
       /\ calls'[Len(calls')].loader = l
    \/ \E c \in DOMAIN calls :
          /\ calls[c].loader = l
          /\ calls[c].pc = "await"
          /\ calls'[c].pc # "await"

C7_MissingResultOnlyForOmittedKey ==
    \A c \in DOMAIN calls :
        LET q == QueryOf(c)
            k == calls[c].key
        IN (q > 0 /\ queries[q].state = "fulfilled")
           => IF k \in Range(queries[q].rows)
              THEN calls[c].outcome = Fulfilled(Item(k, q))
              ELSE calls[c].outcome = Fulfilled(NoItem)

C7_Witness ==
    \E c1, c2 \in DOMAIN calls :
        LET q == QueryOf(c1)
        IN /\ q > 0
           /\ QueryOf(c2) = q
           /\ queries[q].state = "fulfilled"
           /\ calls[c1].key \in Range(queries[q].ids)
           /\ calls[c1].key \notin Range(queries[q].rows)
           /\ calls[c1].outcome = Fulfilled(NoItem)
           /\ calls[c2].outcome = Fulfilled(Item(calls[c2].key, q))

\* C8: on an instance constructed without a batch function a load call that
\* has resumed is rejected with the 'Not implemented' error.
C8_NoBatchFnNotImplemented ==
    \A c \in DOMAIN calls :
        (batchFn[calls[c].loader] = "undefined" /\ calls[c].pc # "await")
        => calls[c].outcome = Rejected(NotImplemented)

\* C9: a load call that registered its key is settled only from a batch
\* whose keys contain that key.
C9_SettledInOwnBatch ==
    \A c \in DOMAIN calls :
        (/\ batchFn[calls[c].loader] = "function"
         /\ ~calls[c].hit
         /\ Settled(c))
        => /\ QueryOf(c) > 0
           /\ calls[c].key \in Range(queries[QueryOf(c)].ids)

\* The liveness half of C9, under FairSpec: no load call stays pending.
C9_EventuallySettled ==
    \A c \in 1..MaxCalls :
        (c \in DOMAIN calls) ~> (c \in DOMAIN calls /\ Settled(c))

\* C10 as stated: however many load calls are made before the first deferral
\* of a loader resolves, schedulingFn has been invoked once.
C10_SchedOncePerWindow ==
    \A l \in Loaders :
        (CallsOf(l) # {} /\ Resumed(l) = {}) => schedCalls[l] = 1

\* C10 as amended: schedulingFn is invoked once per load call that does not
\* find an already created promise under its key, so once for every load
\* call made before the batch is dispatched.
C10_SchedOncePerUncachedLoad ==
    \A l \in Loaders :
        schedCalls[l] =
            Cardinality({c \in CallsOf(l) : calls[c].found <= Placeholder})

C10_Witness ==
    \E l \in Loaders :
        /\ Resumed(l) = {}
        /\ \E c1, c2 \in CallsOf(l) : c1 # c2 /\ calls[c1].key = calls[c2].key
        /\ schedCalls[l] = 2

\* A step that is the call load(k) on instance l.
LoadCallStep(l, k) ==
    /\ Len(calls') = Len(calls) + 1
    /\ calls'[Len(calls')].loader = l
    /\ calls'[Len(calls')].key = k

\* What C11 says of a load call: the entry is returned and nothing changes.
ReturnsEntryUnchanged(l, k) ==
    /\ calls'[Len(calls')].pc = "returned"
    /\ calls'[Len(calls')].p = PromisesOf(l)[k]
    /\ UNCHANGED <<promises, activeQuery, queries, thens, schedCalls>>

\* C11 as stated: a load call whose key already has an entry, the null
\* placeholder or a promise, returns that entry, registers nothing, invokes
\* neither schedulingFn nor batchFn and leaves promises as it is.
C11_ExistingEntryReturnedUnchanged ==
    [][\A l \in Loaders, k \in Keys :
          (LoadCallStep(l, k) /\ PromisesOf(l)[k] # Absent)
          => ReturnsEntryUnchanged(l, k)]_vars

\* C11 as amended: a load call whose key already holds a promise chained to
\* the batch returns that promise, registers nothing, invokes neither
\* schedulingFn nor batchFn and leaves promises as it is.
C11_CachedPromiseReturnedUnchanged ==
    [][\A l \in Loaders, k \in Keys :
          (LoadCallStep(l, k) /\ PromisesOf(l)[k] > Placeholder)
          => ReturnsEntryUnchanged(l, k)]_vars

C11_Witness ==
    \E c \in DOMAIN calls :
        /\ calls[c].found > Placeholder
        /\ calls[c].hit
        /\ calls[c].p = calls[c].found
        /\ PromisesOf(calls[c].loader)[calls[c].key] = calls[c].found

\* A step that is the continuation of load call c after its deferral.
ResumeStep(c) ==
    /\ c \in DOMAIN calls
    /\ calls[c].pc = "await"
    /\ calls'[c].pc # "await"

\* C12: a load call that resumes while its instance has no active query
\* dispatches the batch, with exactly the keys of all load calls made on the
\* instance so far, each once; one that resumes later dispatches nothing.
C12_FirstResumeDispatchesAllRegistered ==
    [][\A c \in 1..MaxCalls :
          (ResumeStep(c) /\ batchFn[calls[c].loader] = "function")
          => LET l == calls[c].loader
                 n == Len(queries')
             IN IF activeQuery[l] = 0
                THEN /\ n = Len(queries) + 1
                     /\ activeQuery'[l] = n
                     /\ queries'[n].loader = l
                     /\ queries'[n].by = c
                     /\ Range(queries'[n].ids) = KeysOfCalls(CallsOf(l))
                     /\ Len(queries'[n].ids) =
                            Cardinality(KeysOfCalls(CallsOf(l)))
                ELSE /\ queries' = queries
                     /\ activeQuery' = activeQuery]_vars

\* A batch dispatched by the call made second, holding the key of the call
\* made first, whose own deferral has not resolved yet.
C12_Witness ==
    \E q \in DOMAIN queries, c \in DOMAIN calls :
        /\ calls[c].loader = queries[q].loader
        /\ calls[c].pc = "await"
        /\ queries[q].by > c
        /\ calls[c].key # calls[queries[q].by].key
        /\ calls[c].key \in Range(queries[q].ids)

\* The keys of the calls c..Len(calls) made on instance l before its first
\* resumption, each at its first request and without those in seen.
RECURSIVE FirstRequests(_, _, _)
FirstRequests(l, c, seen) ==
    IF c > Len(calls) THEN <<>>
    ELSE IF calls[c].loader = l /\ calls[c].epoch = 0
            /\ calls[c].key \notin seen
         THEN <<calls[c].key>>
                  \o FirstRequests(l, c + 1, seen \cup {calls[c].key})
         ELSE FirstRequests(l, c + 1, seen)

\* C13 as stated: the keys passed to batchFn are in the order in which each
\* key was first requested.
C13_KeysInFirstRequestOrder ==
    \A q \in DOMAIN queries :
        queries[q].ids = FirstRequests(queries[q].loader, 1, {})

\* C13 as amended: the keys passed to batchFn are the distinct keys of the
\* window in ascending numeric order, whatever order they were requested in.
C13_KeysInAscendingOrder ==
    \A q \in DOMAIN queries :
        LET ids == queries[q].ids
        IN /\ Range(ids) = Range(FirstRequests(queries[q].loader, 1, {}))
           /\ \A i, j \in DOMAIN ids : i < j => ids[i] < ids[j]

\* A batch whose larger key was requested before its smaller key.
C13_Witness ==
    \E q \in DOMAIN queries, c1, c2 \in DOMAIN calls :
        /\ c1 < c2
        /\ calls[c1].loader = queries[q].loader
        /\ calls[c2].loader = queries[q].loader
        /\ calls[c1].key > calls[c2].key
        /\ queries[q].ids = <<calls[c2].key, calls[c1].key>>

\* C14: once activeQuery of an instance holds a query it keeps that query,
\* and an instance constructed with a batch function has invoked it at most
\* once, however many load calls were made and resumed.
C14_ActiveQueryNeverReplaced ==
    /\ [][\A l \in Loaders :
            activeQuery[l] # 0 => activeQuery'[l] = activeQuery[l]]_vars
    /\ [](\A l \in Loaders :
            batchFn[l] = "function" => Cardinality(QueriesOf(l)) <= 1)

\* A load call for a new key, made after the dispatch, has resumed and the
\* instance still has its first query only.
C14_Witness ==
    \E l \in Loaders, c \in DOMAIN calls :
        /\ calls[c].loader = l
        /\ calls[c].epoch >= 1
        /\ ~calls[c].hit
        /\ calls[c].pc = "returned"
        /\ activeQuery[l] # 0
        /\ queries[activeQuery[l]].by # c
        /\ calls[c].key \notin Range(queries[activeQuery[l]].ids)
        /\ Cardinality(QueriesOf(l)) = 1

\* C15: a value a load(k) call is fulfilled with is undefined or an item of
\* the result of the query it is chained to whose id is k.
C15_NeverAnotherKeysItem ==
    \A c \in DOMAIN calls :
        calls[c].outcome.kind = "fulfilled"
        => \/ calls[c].outcome.item = NoItem
           \/ /\ QueryOf(c) > 0
              /\ calls[c].outcome.item = Item(calls[c].key, QueryOf(c))
              /\ calls[c].key \in Range(queries[QueryOf(c)].rows)

\* A load call fulfilled with its own item from a result that starts with
\* the item of another key.
C15_Witness ==
    \E c \in DOMAIN calls :
        /\ QueryOf(c) > 0
        /\ Len(queries[QueryOf(c)].rows) >= 2
        /\ queries[QueryOf(c)].rows[1] # calls[c].key
        /\ calls[c].outcome = Fulfilled(Item(calls[c].key, QueryOf(c)))

====
